---------------------------- MODULE Spec2Model ----------------------------
(***************************************************************************)
(* A model of sc_l1 (src/sparse_coding_batch.py): sparse coding with an L1 *)
(* penalty by alternating coordinate descent on the codes S and block      *)
(* coordinate descent on the dictionary A.                                 *)
(*                                                                         *)
(* Numbers are exact rationals <<n, d>> in lowest terms with d > 0, so the *)
(* arithmetic of the tensors is modelled without rounding.  A matrix is a  *)
(* sequence of rows and rows and columns are numbered from 1 (the code's   *)
(* index i is the model's i - 1).  The inputs have L = 1 (one observed     *)
(* dimension) or L = 2 with every column of X and A a multiple of (3, 4), *)
(* so that the Euclidean norm of every column the code forms is rational.  *)
(***************************************************************************)
EXTENDS Integers, Sequences, FiniteSets, TLC

(***************************************************************************)
(* Exact rational arithmetic.                                              *)
(***************************************************************************)
IAbs(n) == IF n < 0 THEN -n ELSE n

RECURSIVE GCD(_, _)
GCD(a, b) == IF b = 0 THEN a ELSE GCD(b, a % b)

\* n / d in lowest terms with a positive denominator (d # 0)
Rat(n, d) ==
    LET g == GCD(IAbs(n), IAbs(d))
        s == IF d < 0 THEN -1 ELSE 1
    IN  <<(s * n) \div g, (s * d) \div g>>

Zero == <<0, 1>>
One == <<1, 1>>
Half == <<1, 2>>

RAdd(a, b) ==
    LET g == GCD(a[2], b[2])
    IN  Rat(a[1] * (b[2] \div g) + b[1] * (a[2] \div g), (a[2] \div g) * b[2])

RNeg(a) == <<-a[1], a[2]>>

RSub(a, b) == RAdd(a, RNeg(b))

RMul(a, b) ==
    LET g1 == GCD(IAbs(a[1]), b[2])
        g2 == GCD(IAbs(b[1]), a[2])
    IN  <<(a[1] \div g1) * (b[1] \div g2), (a[2] \div g2) * (b[2] \div g1)>>

\* a / b for b # 0
RDiv(a, b) ==
    IF b[1] < 0 THEN RMul(a, <<-b[2], -b[1]>>) ELSE RMul(a, <<b[2], b[1]>>)

RAbs(a) == <<IAbs(a[1]), a[2]>>

\* n1/d1 < n2/d2 for n1, n2 >= 0 and d1, d2 > 0, by the continued fractions
\* of the two sides (no product is formed)
RECURSIVE PosLess(_, _, _, _)
PosLess(n1, d1, n2, d2) ==
    IF n1 \div d1 # n2 \div d2 THEN n1 \div d1 < n2 \div d2
    ELSE IF n2 % d2 = 0 THEN FALSE
    ELSE IF n1 % d1 = 0 THEN TRUE
    ELSE PosLess(d2, n2 % d2, d1, n1 % d1)

RLt(a, b) ==
    IF a[1] < 0
    THEN IF b[1] < 0 THEN PosLess(-b[1], b[2], -a[1], a[2]) ELSE TRUE
    ELSE IF b[1] < 0 THEN FALSE ELSE PosLess(a[1], a[2], b[1], b[2])

RLe(a, b) == ~RLt(b, a)

\* Python's max(a, b): b when b > a, else a
RMax(a, b) == IF RLt(a, b) THEN b ELSE a

\* torch.sign
RSign(a) == IF a[1] > 0 THEN One ELSE IF a[1] < 0 THEN RNeg(One) ELSE Zero

\* torch.clamp(a, min=0)
ClampMin0(a) == IF a[1] < 0 THEN Zero ELSE a

\* the literal 1e-8 of the two guards
Eps == <<1, 100000000>>

(***************************************************************************)
(* Vectors and matrices.                                                   *)
(***************************************************************************)
RECURSIVE SumTo(_, _)
\* f[1] + ... + f[n]
SumTo(f, n) == IF n = 0 THEN Zero ELSE RAdd(SumTo(f, n - 1), f[n])

VSum(v) == SumTo(v, Len(v))

\* a row times a column: sum over k of u[k] * v[k]
Dot(u, v) == VSum([k \in 1..Len(u) |-> RMul(u[k], v[k])])

NRows(Mx) == Len(Mx)

NCols(Mx) == Len(Mx[1])

Col(Mx, j) == [r \in 1..NRows(Mx) |-> Mx[r][j]]

\* Mx.t()
Transpose(Mx) == [j \in 1..NCols(Mx) |-> Col(Mx, j)]

\* P @ Q
MatMul(P, Q) ==
    [r \in 1..NRows(P) |-> [c \in 1..NCols(Q) |-> Dot(P[r], Col(Q, c))]]

\* torch.diag of a square matrix
Diag(G) == [k \in 1..NRows(G) |-> G[k][k]]

\* the matrix with its diagonal set to zero
ZeroDiag(G) ==
    [r \in 1..NRows(G) |-> [c \in 1..NCols(G) |-> IF r = c THEN Zero ELSE G[r][c]]]

RECURSIVE NewtonSqrt(_, _)
\* Newton's iteration for the integer square root of n, from x >= sqrt(n)
NewtonSqrt(n, x) ==
    LET y == (x + n \div x) \div 2
    IN  IF y >= x THEN x ELSE NewtonSqrt(n, y)

ISqrt(n) == IF n = 0 THEN 0 ELSE NewtonSqrt(n, n)

\* the square root of a rational that is the square of a rational
RSqrt(a) == <<ISqrt(a[1]), ISqrt(a[2])>>

\* torch.norm of a vector: the square root of the sum of its squares
Norm(a) == RSqrt(Dot(a, a))

(***************************************************************************)
(* The state of one call of sc_l1.  A state record st holds the arguments, *)
(* the locals and the position pc of the call:                             *)
(*   "loop"     at the head of the outer loop (line 48)                    *)
(*   "s_setup"  before the Gram matrices of the code update (lines 52-56)  *)
(*   "s_sweep"  in the inner loops of the code update (lines 59-68)        *)
(*   "a_setup"  before the matrices of the dictionary update (lines 73-76) *)
(*   "a_sweep"  in the inner loops of the dictionary update (lines 79-88)  *)
(*   "energy"   before the energy evaluation (lines 93-95)                 *)
(*   "done"     returned (line 98)                                         *)
(* iter is the number of completed outer iterations, sweep the number of   *)
(* completed inner sweeps of the current phase, i the next index of the    *)
(* current sweep.  s_visits and a_visits count the passes through the body *)
(* of the inner loops of the current outer iteration.  A local that is not *)
(* yet assigned is <<>>.                                                   *)
(***************************************************************************)
VARIABLES X, A, S, sparsity, max_norm2, max_iters, max_inner_iters,
          E, iter, pc, sweep, i,
          AtA, diagAtA, AtX, XSt, SSt, diagSSt,
          s_visits, a_visits, twin

\* the call's own state, as a record
Cur ==
    [X |-> X, A |-> A, S |-> S, sparsity |-> sparsity, max_norm2 |-> max_norm2,
     max_iters |-> max_iters, max_inner_iters |-> max_inner_iters,
     E |-> E, iter |-> iter, pc |-> pc, sweep |-> sweep, i |-> i,
     AtA |-> AtA, diagAtA |-> diagAtA, AtX |-> AtX,
     XSt |-> XSt, SSt |-> SSt, diagSSt |-> diagSSt,
     s_visits |-> s_visits, a_visits |-> a_visits]

vars == <<X, A, S, sparsity, max_norm2, max_iters, max_inner_iters,
          E, iter, pc, sweep, i, AtA, diagAtA, AtX, XSt, SSt, diagSSt,
          s_visits, a_visits, twin>>

\* the call moves to state r
Becomes(r) ==
    /\ X' = r.X /\ A' = r.A /\ S' = r.S
    /\ sparsity' = r.sparsity /\ max_norm2' = r.max_norm2
    /\ max_iters' = r.max_iters /\ max_inner_iters' = r.max_inner_iters
    /\ E' = r.E /\ iter' = r.iter /\ pc' = r.pc
    /\ sweep' = r.sweep /\ i' = r.i
    /\ AtA' = r.AtA /\ diagAtA' = r.diagAtA /\ AtX' = r.AtX
    /\ XSt' = r.XSt /\ SSt' = r.SSt /\ diagSSt' = r.diagSSt
    /\ s_visits' = r.s_visits /\ a_visits' = r.a_visits

\* L, N = X.shape; M = A.shape[1]
DimL(st) == NRows(st.X)

DimN(st) == NCols(st.X)

DimM(st) == NCols(st.A)

(***************************************************************************)
(* The steps of sc_l1, each a function from the state before to the state  *)
(* after.                                                                  *)
(***************************************************************************)
\* sign(u) * clamp(|u| - t, min=0), elementwise
soft_threshold(u, t) ==
    [n \in 1..Len(u) |-> RMul(RSign(u[n]), ClampMin0(RSub(RAbs(u[n]), t)))]

\* for iter in range(max_iters): the body is entered
OuterEnterStep(st) ==
    [st EXCEPT !.pc = "s_setup", !.s_visits = 0, !.a_visits = 0]

\* the outer loop is exhausted: return A, S, E
ReturnStep(st) == [st EXCEPT !.pc = "done"]

\* SSetupStep with the diagonal read after fill_diagonal_(0.0)
SSetupStepDiagAfterZero(st) ==
    LET G == ZeroDiag(MatMul(Transpose(st.A), st.A))
    IN  [st EXCEPT !.diagAtA = Diag(G), !.AtA = G,
                   !.AtX = MatMul(Transpose(st.A), st.X),
                   !.sweep = 0, !.i = 1, !.pc = "s_sweep"]

\* AtA, diagAtA (taken before the diagonal is zeroed) and AtX
SSetupStep(st) ==
    LET G == MatMul(Transpose(st.A), st.A)
    IN  [st EXCEPT !.diagAtA = Diag(G), !.AtA = ZeroDiag(G),
                   !.AtX = MatMul(Transpose(st.A), st.X),
                   !.sweep = 0, !.i = 1, !.pc = "s_sweep"]

\* NextIndex over range(M - 1): the last index is never reached
NextIndexShort(st) ==
    IF st.i >= DimM(st) - 1 THEN [st EXCEPT !.i = 1, !.sweep = @ + 1]
    ELSE [st EXCEPT !.i = @ + 1]

\* the inner loops' next index: i + 1, or the first index of the next sweep
NextIndex(st) ==
    IF st.i = DimM(st) THEN [st EXCEPT !.i = 1, !.sweep = @ + 1]
    ELSE [st EXCEPT !.i = @ + 1]

\* u = AtX[i, :] - AtA[i, :] @ S
ResidualU(st, k) ==
    [n \in 1..DimN(st) |-> RSub(st.AtX[k][n], Dot(st.AtA[k], Col(st.S, n)))]

\* new_val of row k
NewRow(st, k) ==
    LET sth == soft_threshold(ResidualU(st, k), st.sparsity)
    IN  IF RLt(Eps, RAbs(st.diagAtA[k]))
        THEN [n \in 1..DimN(st) |-> RDiv(sth[n], st.diagAtA[k])]
        ELSE sth

\* SRowStep that leaves the sweeps as soon as a row no longer changes
SRowStepBreak(st) ==
    IF NewRow(st, st.i) = st.S[st.i]
    THEN [st EXCEPT !.s_visits = @ + 1, !.pc = "a_setup"]
    ELSE NextIndex([st EXCEPT !.S[st.i] = NewRow(st, st.i), !.s_visits = @ + 1])

\* one pass through the body of the code update's inner loop
SRowStep(st) ==
    NextIndex([st EXCEPT !.S[st.i] = NewRow(st, st.i), !.s_visits = @ + 1])

\* SDoneStep that evaluates the energy before the dictionary update
SDoneStepToEnergy(st) == [st EXCEPT !.pc = "energy"]

\* the code update's sweeps are exhausted
SDoneStep(st) == [st EXCEPT !.pc = "a_setup"]

\* XSt, SSt (diagonal zeroed) and diagSSt
ASetupStep(st) ==
    LET Q == MatMul(st.S, Transpose(st.S))
    IN  [st EXCEPT !.XSt = MatMul(st.X, Transpose(st.S)),
                   !.diagSSt = Diag(Q), !.SSt = ZeroDiag(Q),
                   !.sweep = 0, !.i = 1, !.pc = "a_sweep"]

\* if diagSSt[i].abs() < 1e-8: continue
SkipCol(st, k) == RLt(RAbs(st.diagSSt[k]), Eps)

\* a = XSt[:, i] - A @ SSt[:, i]
ResidualA(st, k) ==
    [l \in 1..DimL(st) |-> RSub(st.XSt[l][k], Dot(st.A[l], Col(st.SSt, k)))]

\* Denom without the norm: 1 / diagSSt[i]
DenomInvE(norm_a, e) == RDiv(One, e)

\* denom = max(norm_a, 1 / diagSSt[i])
Denom(norm_a, e) == RMax(norm_a, RDiv(One, e))

\* NewCol that lets a column grow to norm max_norm2
NewColMaxNorm2(st, k) ==
    LET a == ResidualA(st, k)
        denom == Denom(RDiv(Norm(a), st.max_norm2), st.diagSSt[k])
    IN  [l \in 1..DimL(st) |-> RDiv(a[l], denom)]

\* a / denom
NewCol(st, k) ==
    LET a == ResidualA(st, k)
        denom == Denom(Norm(a), st.diagSSt[k])
    IN  [l \in 1..DimL(st) |-> RDiv(a[l], denom)]

\* A[:, k].copy_(c)
SetCol(Mx, k, c) == [l \in 1..NRows(Mx) |-> [Mx[l] EXCEPT ![k] = c[l]]]

\* AColStep that also rescales row i of S by the denominator
AColStepRescaleS(st) ==
    LET denom == Denom(Norm(ResidualA(st, st.i)), st.diagSSt[st.i])
    IN  NextIndex([st EXCEPT
            !.A = SetCol(st.A, st.i, NewCol(st, st.i)),
            !.S[st.i] = [n \in 1..DimN(st) |-> RMul(st.S[st.i][n], denom)],
            !.a_visits = @ + 1])

\* a pass through the inner loop's body that writes column i
AColStep(st) ==
    NextIndex([st EXCEPT !.A = SetCol(st.A, st.i, NewCol(st, st.i)),
                         !.a_visits = @ + 1])

\* ASkipStep that writes the residual with the denominator taken as 1
ASkipStepDenomOne(st) ==
    NextIndex([st EXCEPT !.A = SetCol(st.A, st.i, ResidualA(st, st.i)),
                         !.a_visits = @ + 1])

\* a pass through the inner loop's body that skips column i
ASkipStep(st) == NextIndex([st EXCEPT !.a_visits = @ + 1])

\* the dictionary update's sweeps are exhausted
ADoneStep(st) == [st EXCEPT !.pc = "energy"]

\* the sum of the entries of f applied elementwise to a matrix
MSum(Mx) == VSum([r \in 1..NRows(Mx) |-> VSum(Mx[r])])

\* 0.5 * sum((X - A @ S) ** 2) + sparsity * sum(|S|)
Energy(Xm, Am, Sm, sp) ==
    LET AS == MatMul(Am, Sm)
        sq == [r \in 1..NRows(Xm) |-> [c \in 1..NCols(Xm) |->
                  RMul(RSub(Xm[r][c], AS[r][c]), RSub(Xm[r][c], AS[r][c]))]]
        ab == [r \in 1..NRows(Sm) |-> [c \in 1..NCols(Sm) |-> RAbs(Sm[r][c])]]
    IN  RAdd(RMul(Half, MSum(sq)), RMul(sp, MSum(ab)))

\* EnergyStep that keeps only the last energy
EnergyStepOverwrite(st) ==
    [st EXCEPT !.E = <<Energy(st.X, st.A, st.S, st.sparsity)>>,
               !.iter = @ + 1, !.pc = "loop"]

\* E.append(energy.item()); the outer iteration is complete
EnergyStep(st) ==
    [st EXCEPT !.E = Append(@, Energy(st.X, st.A, st.S, st.sparsity)),
               !.iter = @ + 1, !.pc = "loop"]

\* the step the call takes from state st
Step(st) ==
    CASE st.pc = "loop" ->
            IF st.iter < st.max_iters THEN OuterEnterStep(st) ELSE ReturnStep(st)
      [] st.pc = "s_setup" -> SSetupStep(st)
      [] st.pc = "s_sweep" ->
            IF st.sweep < st.max_inner_iters THEN SRowStep(st) ELSE SDoneStep(st)
      [] st.pc = "a_setup" -> ASetupStep(st)
      [] st.pc = "a_sweep" ->
            IF st.sweep < st.max_inner_iters
            THEN IF SkipCol(st, st.i) THEN ASkipStep(st) ELSE AColStep(st)
            ELSE ADoneStep(st)
      [] st.pc = "energy" -> EnergyStep(st)
      [] OTHER -> st

(***************************************************************************)
(* The calls that are checked: the arguments of sc_l1 are drawn from these *)
(* sets.  X is L x N, A is L x M, S is M x N; L in {1, 2}, M in {2, 3}, N = 2. *)
(***************************************************************************)
MaxIters == 2

MaxInner == 2

R(n) == <<n, 1>>

InitX ==
    { << <<Half, R(2)>> >>, << <<R(2), R(-1)>> >>,
      << <<R(-1), Half>> >>, << <<R(0), R(1)>> >>,
      << <<R(6), R(-3)>>, <<R(8), R(-4)>> >> }

InitA ==
    { << <<R(0), R(1)>> >>, << <<Half, R(1)>> >>, << <<R(1), R(1)>> >>,
      << <<R(1), R(-1)>> >>, << <<Half, R(0)>> >>, << <<Half, Half>> >>,
      << <<R(1), R(0), Half>> >>, << <<R(1), Half, R(-1)>> >>,
      << <<R(3), R(0)>>, <<R(4), R(0)>> >>,
      << <<<<3, 5>>, <<-3, 10>>>>, <<<<4, 5>>, <<-2, 5>>>> >> }

InitS ==
    { << <<R(0), R(0)>>, <<R(0), R(0)>> >>,
      << <<R(1), R(1)>>, <<R(1), R(-1)>> >>,
      << <<R(0), R(1)>>, <<R(2), R(0)>> >>,
      << <<R(1), R(0)>>, <<R(0), R(1)>>, <<R(1), R(1)>> >> }

Sparsities == {R(0), R(1)}

MaxNorm2s == {R(1), R(2)}

\* X is (L, N), A is (L, M), S is (M, N)
ShapesAgree(Xm, Am, Sm) ==
    /\ NRows(Am) = NRows(Xm)
    /\ NRows(Sm) = NCols(Am)
    /\ NCols(Sm) = NCols(Xm)

\* the state at the entry of the call, E = []
Entry(Xm, Am, Sm, sp, mn2, mi, mii) ==
    [X |-> Xm, A |-> Am, S |-> Sm, sparsity |-> sp, max_norm2 |-> mn2,
     max_iters |-> mi, max_inner_iters |-> mii,
     E |-> <<>>, iter |-> 0, pc |-> "loop", sweep |-> 0, i |-> 1,
     AtA |-> <<>>, diagAtA |-> <<>>, AtX |-> <<>>,
     XSt |-> <<>>, SSt |-> <<>>, diagSSt |-> <<>>,
     s_visits |-> 0, a_visits |-> 0]

\* calls in which a row of S comes out of the first code update with an
\* energy below 1e-8 that is not zero (its entries are 1/20000 and 0)
NearDegenerateX == { << <<<<20001, 20000>>, Half>> >> }

NearDegenerateA == { << <<R(1), R(1)>> >> }

NearDegenerateS == { << <<R(1), R(1)>>, <<R(1), R(-1)>> >> }

\* the calls that are checked
Calls ==
    { c \in [X : InitX, A : InitA, S : InitS, sparsity : Sparsities,
             max_norm2 : MaxNorm2s, max_iters : 0..MaxIters,
             max_inner_iters : 0..MaxInner] : ShapesAgree(c.X, c.A, c.S) }
    \cup [X : NearDegenerateX, A : NearDegenerateA, S : NearDegenerateS,
          sparsity : {R(1)}, max_norm2 : MaxNorm2s, max_iters : 0..MaxIters,
          max_inner_iters : 1..MaxInner]

\* a second call with the arguments of c except max_norm2
Twins(c) ==
    { Entry(c.X, c.A, c.S, c.sparsity, other, c.max_iters, c.max_inner_iters) :
        other \in MaxNorm2s \ {c.max_norm2} }

\* the state at the entry of a call; twin is a second call with the same
\* arguments except max_norm2
Init ==
    \E c \in Calls :
        /\ X = c.X /\ A = c.A /\ S = c.S
        /\ sparsity = c.sparsity /\ max_norm2 = c.max_norm2
        /\ max_iters = c.max_iters /\ max_inner_iters = c.max_inner_iters
        /\ E = <<>> /\ iter = 0 /\ pc = "loop" /\ sweep = 0 /\ i = 1
        /\ AtA = <<>> /\ diagAtA = <<>> /\ AtX = <<>>
        /\ XSt = <<>> /\ SSt = <<>> /\ diagSSt = <<>>
        /\ s_visits = 0 /\ a_visits = 0
        /\ twin \in Twins(c)

(***************************************************************************)
(* The actions: one per step of the call; the twin call takes its own step *)
(* at the same time.                                                       *)
(***************************************************************************)
OuterEnter ==
    /\ pc = "loop" /\ iter < max_iters
    /\ Becomes(OuterEnterStep(Cur)) /\ twin' = Step(twin)

Return ==
    /\ pc = "loop" /\ ~(iter < max_iters)
    /\ Becomes(ReturnStep(Cur)) /\ twin' = Step(twin)

SSetup ==
    /\ pc = "s_setup"
    /\ Becomes(SSetupStep(Cur)) /\ twin' = Step(twin)

SRow ==
    /\ pc = "s_sweep" /\ sweep < max_inner_iters
    /\ Becomes(SRowStep(Cur)) /\ twin' = Step(twin)

SDone ==
    /\ pc = "s_sweep" /\ ~(sweep < max_inner_iters)
    /\ Becomes(SDoneStep(Cur)) /\ twin' = Step(twin)

ASetup ==
    /\ pc = "a_setup"
    /\ Becomes(ASetupStep(Cur)) /\ twin' = Step(twin)

ASkip ==
    /\ pc = "a_sweep" /\ sweep < max_inner_iters /\ SkipCol(Cur, i)
    /\ Becomes(ASkipStep(Cur)) /\ twin' = Step(twin)

ACol ==
    /\ pc = "a_sweep" /\ sweep < max_inner_iters /\ ~SkipCol(Cur, i)
    /\ Becomes(AColStep(Cur)) /\ twin' = Step(twin)

ADone ==
    /\ pc = "a_sweep" /\ ~(sweep < max_inner_iters)
    /\ Becomes(ADoneStep(Cur)) /\ twin' = Step(twin)

EnergyEval ==
    /\ pc = "energy"
    /\ Becomes(EnergyStep(Cur)) /\ twin' = Step(twin)

Next ==
    \/ OuterEnter \/ Return \/ SSetup \/ SRow \/ SDone
    \/ ASetup \/ ASkip \/ ACol \/ ADone \/ EnergyEval

Spec == Init /\ [][Next]_vars

(***************************************************************************)
(* Properties.                                                             *)
(***************************************************************************)
\* the squared Euclidean norm of column k of Mx
ColNormSq(Mx, k) == Dot(Col(Mx, k), Col(Mx, k))

\* C1: the energy history E starts empty, gains exactly one entry at the end
\* of each completed outer iteration and never loses one: in every state
\* Len(E) is the number of completed outer iterations, and a call with
\* max_iters >= 1 returns with Len(E) = max_iters.
C1_EnergyHistoryLength ==
    /\ E = <<>>
    /\ [](Len(E) = iter)
    /\ [](pc = "done" /\ max_iters >= 1 => Len(E) = max_iters)
    /\ [][\/ E' = E
          \/ /\ Len(E') = Len(E) + 1
             /\ SubSeq(E', 1, Len(E)) = E
             /\ pc = "energy" /\ iter' = iter + 1]_vars

C1_Witness == pc = "done" /\ max_iters = MaxIters /\ Len(E) = MaxIters

\* C2: a call that violates a precondition (here max_iters <= 0 or
\* max_inner_iters <= 0) is rejected before any computation: it never reaches
\* the phases or a normal return, no row of S and no column of A is written
\* and no energy is appended.
C2_RejectedBeforeComputation ==
    (max_iters <= 0 \/ max_inner_iters <= 0) =>
        /\ pc = "loop"
        /\ E = <<>>
        /\ s_visits = 0 /\ a_visits = 0

\* C3: max_norm2 has no effect: a call that differs only in max_norm2 passes
\* through the same states (arguments, locals, position, A, S and E).
C3_MaxNorm2Ignored ==
    /\ twin.max_norm2 # max_norm2
    /\ [twin EXCEPT !.max_norm2 = Zero] = [Cur EXCEPT !.max_norm2 = Zero]

C3_Witness ==
    /\ pc = "done" /\ twin.pc = "done" /\ Len(E) = MaxIters
    /\ twin.max_norm2 # max_norm2
    /\ \E k \in 1..DimM(Cur) : ~SkipCol(Cur, k)
    /\ twin.A = A /\ twin.S = S /\ twin.E = E

\* the order of the positions of a call
PhaseOrder ==
    { <<"loop", "s_setup">>, <<"s_setup", "s_sweep">>, <<"s_sweep", "a_setup">>,
      <<"a_setup", "a_sweep">>, <<"a_sweep", "energy">>, <<"energy", "loop">>,
      <<"loop", "done">> }

\* C4: in every outer iteration the code update comes first, then the
\* dictionary update, then the energy evaluation, and the recorded energy is
\* that of the A and S left by both phases of the iteration.
C4_EnergyAfterBothPhases ==
    [][/\ pc' # pc => <<pc, pc'>> \in PhaseOrder
       /\ E' # E =>
            /\ pc = "energy"
            /\ A' = A /\ S' = S
            /\ E' = Append(E, Energy(X, A, S, sparsity))]_vars

C4_Witness ==
    /\ pc = "loop" /\ iter = 2 /\ Len(E) = 2 /\ E[1] # E[2]
    /\ s_visits > 0 /\ a_visits > 0
    /\ \E k \in 1..DimM(Cur) : ~SkipCol(Cur, k)

\* C5: X never changes; the code update changes only S (A is unchanged from
\* the start to the end of the phase), the dictionary update changes only A
\* (S is unchanged), and no other step writes A or S.
C5_PhasesWriteOnlyTheirOwn ==
    [][/\ X' = X
       /\ pc \in {"s_setup", "s_sweep"} => A' = A
       /\ pc \in {"a_setup", "a_sweep"} => S' = S
       /\ pc \in {"loop", "energy", "done"} => A' = A /\ S' = S]_vars

C5_Witness ==
    /\ pc = "energy" /\ iter = 1 /\ s_visits > 0 /\ a_visits > 0
    /\ \E k \in 1..DimM(Cur) : ~SkipCol(Cur, k)

\* the steps of one outer iteration: six around 2 * max_inner_iters * M
\* passes through the bodies of the inner loops
IterSteps == 6 + 2 * max_inner_iters * DimM(Cur)

\* the passes still to come in the current phase
PassesLeft == (max_inner_iters - sweep) * DimM(Cur) - (i - 1)

\* the steps the call has still to take to return after exactly max_iters
\* outer iterations of max_inner_iters full sweeps in each phase
Remaining ==
    CASE pc = "done" -> 0
      [] pc = "loop" -> (max_iters - iter) * IterSteps + 1
      [] pc = "s_setup" -> (max_iters - iter) * IterSteps
      [] pc = "s_sweep" ->
            (max_iters - iter - 1) * IterSteps + 1
                + PassesLeft + 4 + max_inner_iters * DimM(Cur)
      [] pc = "a_setup" ->
            (max_iters - iter - 1) * IterSteps + 1
                + 3 + max_inner_iters * DimM(Cur)
      [] pc = "a_sweep" -> (max_iters - iter - 1) * IterSteps + 1 + PassesLeft + 2
      [] pc = "energy" -> (max_iters - iter - 1) * IterSteps + 1 + 1

\* C6: with max_iters >= 1 and max_inner_iters >= 1 the call returns after
\* exactly max_iters outer iterations, each with exactly max_inner_iters
\* sweeps over all M indices in each phase: every step brings the return one
\* step nearer, along the one path that has no early exit and skips nothing,
\* and the energy step keeps A and S and completes the iteration whatever
\* the energy is.
C6_RunsTheFullCount ==
    /\ [](max_iters >= 1 /\ max_inner_iters >= 1 =>
            /\ pc \in {"loop", "s_setup", "s_sweep", "a_setup", "a_sweep",
                       "energy", "done"}
            /\ Remaining >= 0 /\ (Remaining = 0 <=> pc = "done")
            /\ pc = "done" => iter = max_iters
            /\ pc = "energy" =>
                 /\ s_visits = max_inner_iters * DimM(Cur)
                 /\ a_visits = max_inner_iters * DimM(Cur))
    /\ [][max_iters >= 1 /\ max_inner_iters >= 1 =>
            /\ Remaining' = Remaining - 1
            /\ iter' \in {iter, iter + 1}
            /\ pc = "energy" =>
                 A' = A /\ S' = S /\ iter' = iter + 1 /\ pc' = "loop"]_vars

\* the energy went up from the first to the second iteration, and the call
\* ran on to its end
C6_Witness ==
    /\ pc = "done" /\ max_iters = 2 /\ max_inner_iters >= 1 /\ iter = 2
    /\ RLt(E[1], E[2])

\* C7: in every sweep of both phases the indices are taken in ascending
\* order from the first, and the row of S (column of A) of an index is
\* written, from the matrix as it stands, in the step that leaves the index:
\* the rows before it are those of this sweep, the rows after it those of the
\* sweep before.
C7_AscendingGaussSeidel ==
    [][/\ pc \in {"s_setup", "a_setup"} => i' = 1 /\ sweep' = 0
       /\ pc \in {"s_sweep", "a_sweep"} /\ pc' = pc =>
            /\ IF i < DimM(Cur) THEN i' = i + 1 /\ sweep' = sweep
               ELSE i' = 1 /\ sweep' = sweep + 1
       /\ pc = "s_sweep" /\ pc' = pc => S' = [S EXCEPT ![i] = NewRow(Cur, i)]
       /\ pc = "a_sweep" /\ pc' = pc /\ ~SkipCol(Cur, i) =>
            A' = SetCol(A, i, NewCol(Cur, i))]_vars

C7_Witness ==
    /\ pc = "a_sweep" /\ sweep = 1 /\ i = 3 /\ DimM(Cur) = 3
    /\ ~SkipCol(Cur, 1) /\ ~SkipCol(Cur, 3)

\* C8: d, G and P are the diagonal, the off-diagonal part and A^T X of the A
\* at the start of the code update and do not change until it ends; e, Q and
\* C are the diagonal, the off-diagonal part and X S^T of the S at the start
\* of the dictionary update and do not change until it ends.
C8_SnapshotsPerPhase ==
    [][/\ pc = "s_setup" =>
            /\ diagAtA' = [k \in 1..DimM(Cur) |-> ColNormSq(A, k)]
            /\ AtA' = [r \in 1..DimM(Cur) |-> [c \in 1..DimM(Cur) |->
                          IF r = c THEN Zero ELSE Dot(Col(A, r), Col(A, c))]]
            /\ AtX' = [k \in 1..DimM(Cur) |-> [n \in 1..DimN(Cur) |->
                          Dot(Col(A, k), Col(X, n))]]
       /\ pc = "s_sweep" => UNCHANGED <<diagAtA, AtA, AtX>>
       /\ pc = "a_setup" =>
            /\ diagSSt' = [k \in 1..DimM(Cur) |-> Dot(S[k], S[k])]
            /\ SSt' = [r \in 1..DimM(Cur) |-> [c \in 1..DimM(Cur) |->
                          IF r = c THEN Zero ELSE Dot(S[r], S[c])]]
            /\ XSt' = [l \in 1..DimL(Cur) |-> [k \in 1..DimM(Cur) |->
                          Dot(X[l], S[k])]]
       /\ pc = "a_sweep" => UNCHANGED <<diagSSt, SSt, XSt>>]_vars

C8_Witness ==
    /\ pc = "a_sweep" /\ sweep = 1 /\ iter = 1
    /\ \E k \in 1..DimM(Cur) : diagAtA[k] # Zero /\ diagAtA[k] # ColNormSq(A, k)

\* C9: in the dictionary update an index k with |e[k]| < 1e-8 is skipped in
\* every sweep: no step of the phase changes column k of A.
C9_NegligibleAtomsSkipped ==
    [][pc = "a_sweep" =>
         \A k \in 1..DimM(Cur) : SkipCol(Cur, k) => Col(A', k) = Col(A, k)]_vars

\* an index whose energy is below 1e-8 and not zero is about to be passed,
\* with a residual that differs from its column, in a phase that writes
\* another column
C9_Witness ==
    /\ pc = "a_sweep" /\ sweep < max_inner_iters /\ SkipCol(Cur, i)
    /\ diagSSt[i] # Zero
    /\ ResidualA(Cur, i) # Col(A, i)
    /\ \E k \in 1..DimM(Cur) : ~SkipCol(Cur, k)

NormsAreExact ==
    pc = "a_sweep" /\ sweep < max_inner_iters /\ ~SkipCol(Cur, i) =>
        LET a == ResidualA(Cur, i)
        IN  RMul(Norm(a), Norm(a)) = Dot(a, a)

=============================================================================
